---- MODULE Spec2Model ----
(***************************************************************************)
(* Metadata Image Cleaner: the App component of src/README.md (the React   *)
(* source starts at line 36 of that file).                                 *)
(*                                                                         *)
(* State: the useState cells of App, the closure captured by the document  *)
(* listeners of the useEffect (lines 69-116), and the asynchronous work in *)
(* flight (setTimeout callbacks, handleImageFile continuations, the        *)
(* img.onload / canvas.toBlob callbacks of handleCleanMetadata).           *)
(*                                                                         *)
(* A handler reads the state cells of the render that created it (its      *)
(* closure) and queues setState calls; React applies the queued calls      *)
(* together when the handler returns.  A handler is therefore an operator  *)
(* from a closure to an update (a function from cell names to new values), *)
(* and Render applies an update to the state.                              *)
(***************************************************************************)
EXTENDS Naturals, Sequences, FiniteSets, Bags, TLC

\* --------------------------------------------------------------------------
\* Bounds of the model
\* --------------------------------------------------------------------------

\* Longest past stack the model lets a save build.
MaxHistory == 1

\* Most handleImageFile calls (scheduled or running) pending at one time.
MaxLoads == 2

\* Most handleCleanMetadata images pending at one time.
MaxCleans == 1

\* Most files the user selects, drops or pastes in one run.
MaxFiles == 3

\* --------------------------------------------------------------------------
\* Values
\* --------------------------------------------------------------------------

\* null of `string | null` and `ExifData | null`; a present value v is <<v>>.
Null == <<>>

Some(v) == <<v>>

\* A File: its name, its MIME type, its decoded raster (dimensions and
\* pixels), the metadata segments exifr.parse finds in it keyed as exifr
\* names them (mergeOutput: false), whether exifr.parse throws on it, and
\* what exifr.thumbnail does on it ("none", "some" or "throws").
FileA ==
  [name |-> "a.jpg", type |-> "image/jpeg",
   raster |-> [width |-> 2, height |-> 1, pixels |-> "p1"],
   segments |-> ("gps" :> "lat,lon") @@ ("exif" :> "camera"),
   parseThrows |-> FALSE, thumbnail |-> "some"]

\* Same raster as FileA, other embedded bytes: exifr.parse throws on them.
FileB ==
  [name |-> "b.jpg", type |-> "image/jpeg",
   raster |-> [width |-> 2, height |-> 1, pixels |-> "p1"],
   segments |-> ("ifd0" :> "malformed"),
   parseThrows |-> TRUE, thumbnail |-> "none"]

\* The files the user selects, drops or pastes.
Files == {FileA, FileB}

\* Files for the checks of the pure functions: every outcome of the parser
\* and of the thumbnail read, two rasters, several segment sets.
AllFiles ==
  [name : {"a.jpg", "c.png"}, type : {"image/jpeg"},
   raster : {[width |-> 2, height |-> 1, pixels |-> "p1"],
             [width |-> 1, height |-> 2, pixels |-> "p2"]},
   segments : {<<>>, ("gps" :> "lat,lon"),
               ("ihdr" :> "8bit") @@ ("icc" :> "sRGB")},
   parseThrows : BOOLEAN, thumbnail : {"none", "some", "throws"}]

\* exifr segment key -> section title of the metadata record.
SectionName(k) ==
  CASE k = "ifd0" -> "IFD0"
    [] k = "ifd1" -> "IFD1"
    [] k = "exif" -> "EXIF"
    [] k = "gps" -> "GPS"
    [] k = "iptc" -> "IPTC"
    [] k = "icc" -> "ICC Profile"
    [] k = "jfif" -> "JFIF"
    [] k = "ihdr" -> "PNG IHDR"
    [] k = "xmp" -> "XMP"
    [] k = "tiff" -> "TIFF"
    [] k = "interop" -> "Interoperability"
    [] k = "makerNote" -> "Maker Note"

\* The sections copied from the parser's output, one per segment found.
Sections(segments) ==
  [t \in {SectionName(k) : k \in DOMAIN segments} |->
     segments[CHOOSE k \in DOMAIN segments : SectionName(k) = t]]

\* The 'File Info' section, built before the try block.
FileInfo(file) ==
  [FileName |-> file.name, FileType |-> file.type]

\* extractMetadata as it would be with the record built inside the try block:
\* a throw loses 'File Info' and records no error.
extractMetadata_NoCatch(file) ==
  IF file.parseThrows \/ file.thumbnail = "throws"
  THEN Sections(file.segments)
  ELSE ("File Info" :> FileInfo(file)) @@ Sections(file.segments)

\* extractMetadata: 'File Info', then inside try the parser's sections and
\* the thumbnail entry; a throw of either call leaves what was stored before
\* it and adds 'Extraction Error'.  The promise always resolves.
extractMetadata(file) ==
  ("File Info" :> FileInfo(file))
  @@ (IF file.parseThrows
      THEN ("Extraction Error" :> "Error: parse")
      ELSE Sections(file.segments)
           @@ (CASE file.thumbnail = "throws" ->
                      ("Extraction Error" :> "Error: thumbnail")
                 [] file.thumbnail = "some" ->
                      ("Embedded Thumbnail" :> [HasThumbnail |-> TRUE])
                 [] OTHER -> <<>>))

\* reader.readAsDataURL(file): the file's type and all of its bytes (raster
\* and embedded segments), not its name.
DataURL(file) ==
  [mime |-> file.type, raster |-> file.raster, embedded |-> file.segments]

\* new Image(); img.src = url; the decoded bitmap the canvas draws.
Decode(url) == url.raster

\* An export that copies the source file's embedded segments into the blob.
ToBlob_KeepsBytes(url) ==
  [id |-> url,
   blob |-> [type |-> "image/jpeg", raster |-> Decode(url),
             embedded |-> url.embedded]]

\* canvas of the image's size, drawImage, toBlob('image/jpeg', 0.92),
\* createObjectURL.  The object URL is its identity (id: the image it was
\* made from) and the blob it names: a JPEG of the canvas bitmap, which has
\* no bytes of the source file.
ToBlob(url) ==
  [id |-> url,
   blob |-> [type |-> "image/jpeg", raster |-> Decode(url),
             embedded |-> <<>>]]

\* --------------------------------------------------------------------------
\* State
\* --------------------------------------------------------------------------

VARIABLES
  originalImage,     \* useState: data URL of the loaded file, or Null
  originalFileName,  \* useState: '' or the file's name
  metadata,          \* useState: the extracted record, or Null
  processedImage,    \* useState: object URL of the cleaned image, or Null
  isProcessing,      \* useState
  history,           \* useState: the past stack, oldest first
  futureHistory,     \* useState: the future stack, next redo first
  listener,          \* the closure of the paste/keydown listeners in effect
  timers,            \* bag of files of pending setTimeout(handleImageFile)
  loads,             \* bag of handleImageFile calls awaiting a continuation
  cleans,            \* bag of handleCleanMetadata images awaiting a callback
  lastOp,            \* history variable: "undo" or "redo" if Ctrl+Z or Ctrl+Y ran last
  given              \* history variable: how many files the user has given

vars ==
  <<originalImage, originalFileName, metadata, processedImage, isProcessing,
    history, futureHistory, listener, timers, loads, cleans, lastOp, given>>

\* The state as one record, so that handlers compose.
St ==
  [originalImage |-> originalImage, originalFileName |-> originalFileName,
   metadata |-> metadata, processedImage |-> processedImage,
   isProcessing |-> isProcessing, history |-> history,
   futureHistory |-> futureHistory, listener |-> listener,
   timers |-> timers, loads |-> loads, cleans |-> cleans]

\* The four fields of a HistoryState, read from a closure or a state.
HistoryState(c) ==
  [originalImage |-> c.originalImage, originalFileName |-> c.originalFileName,
   metadata |-> c.metadata, processedImage |-> c.processedImage]

\* What the handlers of one render read: the four fields and the two stacks.
Closure(s) ==
  [originalImage |-> s.originalImage, originalFileName |-> s.originalFileName,
   metadata |-> s.metadata, processedImage |-> s.processedImage,
   history |-> s.history, futureHistory |-> s.futureHistory]

\* One render: the queued setState calls u are applied to s, and the effect
\* of lines 69-116 registers the new render's listeners only when one of its
\* dependencies [originalImage, processedImage, history] changed; otherwise
\* the listeners of the earlier render stay, with the values they closed over.
\* (The effect runs before the next event is handled.)
Render(s, u) ==
  LET t == u @@ s IN
  [t EXCEPT !.listener =
     IF \/ t.originalImage # s.originalImage
        \/ t.processedImage # s.processedImage
        \/ t.history # s.history
     THEN Closure(t)
     ELSE s.listener]

\* Two handlers called one after the other in one event: the later setState
\* of a cell wins.
Then(u1, u2) == u2 @@ u1

\* No setState call.
NoUpdate == <<>>

\* handleImageFile calls scheduled by a timer or awaiting a continuation.
PendingLoads(s) == BagCardinality(s.timers) + BagCardinality(s.loads)

\* The bag holding x once.
One(x) == SetToBag({x})

\* --------------------------------------------------------------------------
\* Handlers (closure -> update)
\* --------------------------------------------------------------------------

\* setHistory([...history, {the four fields}]); setFutureHistory([])
saveToHistory(c) ==
  [history |-> Append(c.history, HistoryState(c)), futureHistory |-> <<>>]

\* The four fields back to their initial values; isProcessing is not set.
handleReset ==
  [processedImage |-> Null, originalImage |-> Null, originalFileName |-> "",
   metadata |-> Null]

\* The synchronous part of handleImageFile, up to the await.
handleImageFile(file) ==
  [isProcessing |-> TRUE, processedImage |-> Null,
   originalFileName |-> file.name]

\* handleUndo without its first line (the early return on an empty stack).
handleUndo_NoGuard(c) ==
  [futureHistory |-> <<HistoryState(c)>> \o c.futureHistory]
  @@ (IF c.history = <<>> THEN NoUpdate
      ELSE LET previousState == c.history[Len(c.history)] IN
           [originalImage |-> previousState.originalImage,
            originalFileName |-> previousState.originalFileName,
            metadata |-> previousState.metadata,
            processedImage |-> previousState.processedImage,
            history |-> SubSeq(c.history, 1, Len(c.history) - 1)])

\* Pops the last snapshot of the closure's past stack into the four fields and
\* puts the closure's four fields at the front of the future stack.
handleUndo(c) ==
  IF c.history = <<>> THEN NoUpdate
  ELSE LET previousState == c.history[Len(c.history)] IN
       [futureHistory |-> <<HistoryState(c)>> \o c.futureHistory,
        originalImage |-> previousState.originalImage,
        originalFileName |-> previousState.originalFileName,
        metadata |-> previousState.metadata,
        processedImage |-> previousState.processedImage,
        history |-> SubSeq(c.history, 1, Len(c.history) - 1)]

\* Takes the first snapshot of the closure's future stack into the four fields
\* and appends the closure's four fields to the past stack.
handleRedo(c) ==
  IF c.futureHistory = <<>> THEN NoUpdate
  ELSE LET nextState == c.futureHistory[1] IN
       [history |-> Append(c.history, HistoryState(c)),
        originalImage |-> nextState.originalImage,
        originalFileName |-> nextState.originalFileName,
        metadata |-> nextState.metadata,
        processedImage |-> nextState.processedImage,
        futureHistory |-> Tail(c.futureHistory)]

\* A handler's outcome: its queued update and the callbacks it leaves pending.
Eff(u, t, l, c) == [u |-> u, timers |-> t, loads |-> l, cleans |-> c]

\* Two handlers run by one event, in this order.
Both(e1, e2) ==
  Eff(Then(e1.u, e2.u), e1.timers (+) e2.timers, e1.loads (+) e2.loads,
      e1.cleans (+) e2.cleans)

\* The state after a handler with outcome e ran in state s.
Run(s, e) ==
  Render([s EXCEPT !.timers = @ (+) e.timers, !.loads = @ (+) e.loads,
                   !.cleans = @ (+) e.cleans], e.u)

\* A call of handleImageFile: its synchronous part, and the continuation
\* after `await extractMetadata(file)` left pending.
callImageFile(file) ==
  Eff(handleImageFile(file), EmptyBag, One([file |-> file, pc |-> "extract"]),
      EmptyBag)

\* setTimeout(() => handleImageFile(file), 0)
laterImageFile(u, file) == Eff(u, One(file), EmptyBag, EmptyBag)

\* originalImage || processedImage
HasImage(c) == c.originalImage # Null \/ c.processedImage # Null

\* handlePaste with one image item on the clipboard.
handlePaste(c, file) ==
  IF HasImage(c)
  THEN laterImageFile(Then(saveToHistory(c), handleReset), file)
  ELSE callImageFile(file)

\* The Ctrl+D branch of handleKeyDown.
handleKeyDown_d(c) ==
  IF HasImage(c) THEN Then(saveToHistory(c), handleReset) ELSE NoUpdate

\* handleDrop of the upload zone.
handleDrop(c, file) ==
  IF HasImage(c)
  THEN laterImageFile(handleReset, file)
  ELSE callImageFile(file)

\* onDrop of the page's root element.
onDrop(c, file) ==
  IF HasImage(c)
  THEN laterImageFile(Then(saveToHistory(c), handleReset), file)
  ELSE callImageFile(file)

\* handleFileSelect: handleImageFile(files[0])
handleFileSelect(file) == callImageFile(file)

\* handleCleanMetadata without its saveToHistory() call.
handleCleanMetadata_NoSave(c) ==
  IF c.originalImage = Null
  THEN Eff(NoUpdate, EmptyBag, EmptyBag, EmptyBag)
  ELSE Eff([isProcessing |-> TRUE], EmptyBag, EmptyBag,
           One([img |-> c.originalImage[1], pc |-> "load"]))

\* handleCleanMetadata up to `img.src = originalImage`; img.onload or
\* img.onerror is left pending.
handleCleanMetadata(c) ==
  IF c.originalImage = Null
  THEN Eff(NoUpdate, EmptyBag, EmptyBag, EmptyBag)
  ELSE Eff(Then(saveToHistory(c), [isProcessing |-> TRUE]), EmptyBag, EmptyBag,
           One([img |-> c.originalImage[1], pc |-> "load"]))

\* --------------------------------------------------------------------------
\* Steps (state -> state): user events
\* --------------------------------------------------------------------------

\* The file input's change event.
FileSelected(s, file) == Run(s, handleFileSelect(file))

\* A paste event on the document: the listener in effect handles it.
Pasted(s, file) == Run(s, handlePaste(s.listener, file))

\* A drop on the upload zone: handleDrop, then the event bubbles to the
\* root element's onDrop; both are handlers of the current render.
DroppedOnZone(s, file) ==
  Run(s, Both(handleDrop(Closure(s), file), onDrop(Closure(s), file)))

\* A drop anywhere else on the page.
DroppedOnPage(s, file) == Run(s, onDrop(Closure(s), file))

\* Ctrl+Z, Ctrl+Y, Ctrl+D: the keydown listener in effect handles them.
UndoKey(s) == Run(s, Eff(handleUndo(s.listener), EmptyBag, EmptyBag, EmptyBag))

RedoKey(s) == Run(s, Eff(handleRedo(s.listener), EmptyBag, EmptyBag, EmptyBag))

DeleteKey(s) ==
  Run(s, Eff(handleKeyDown_d(s.listener), EmptyBag, EmptyBag, EmptyBag))

\* The X buttons and 'Process Another': onClick={handleReset}.
ResetClicked(s) == Run(s, Eff(handleReset, EmptyBag, EmptyBag, EmptyBag))

\* 'Remove All Metadata': onClick={handleCleanMetadata} of the current render.
CleanClicked(s) == Run(s, handleCleanMetadata(Closure(s)))

\* --------------------------------------------------------------------------
\* Steps (state -> state): callbacks
\* --------------------------------------------------------------------------

\* A setTimeout callback runs handleImageFile(file).
TimerFired(s, file) ==
  Run([s EXCEPT !.timers = @ (-) One(file)], callImageFile(file))

\* extractMetadata resolved: setMetadata, then reader.readAsDataURL(file).
Extracted(s, job) ==
  Run([s EXCEPT !.loads = @ (-) One(job)],
      Eff([metadata |-> Some(extractMetadata(job.file))], EmptyBag,
          One([file |-> job.file, pc |-> "read"]), EmptyBag))

\* reader.onload
FileRead(s, job) ==
  Run([s EXCEPT !.loads = @ (-) One(job)],
      Eff([originalImage |-> Some(DataURL(job.file)), isProcessing |-> FALSE],
          EmptyBag, EmptyBag, EmptyBag))

\* The read fails: the reader has no onerror handler.
FileReadFailed(s, job) == [s EXCEPT !.loads = @ (-) One(job)]

\* img.onload with a 2D context: drawImage, then canvas.toBlob is pending.
ImageLoaded(s, job) ==
  [s EXCEPT !.cleans = (@ (-) One(job)) (+) One([img |-> job.img, pc |-> "blob"])]

\* img.onload without a 2D context: `if (!ctx) return`.
ImageLoadedNoContext(s, job) == [s EXCEPT !.cleans = @ (-) One(job)]

\* img.onerror
ImageError(s, job) ==
  Run([s EXCEPT !.cleans = @ (-) One(job)],
      Eff([isProcessing |-> FALSE], EmptyBag, EmptyBag, EmptyBag))

\* The toBlob callback with a blob.
BlobReady(s, job) ==
  Run([s EXCEPT !.cleans = @ (-) One(job)],
      Eff([processedImage |-> Some(ToBlob(job.img)), isProcessing |-> FALSE],
          EmptyBag, EmptyBag, EmptyBag))

\* The toBlob callback with null: `if (blob)` skips every setState.
BlobNull(s, job) == [s EXCEPT !.cleans = @ (-) One(job)]

\* --------------------------------------------------------------------------
\* What is rendered
\* --------------------------------------------------------------------------

\* The upload zone (with the file input) is rendered.
UploadView(s) ==
  s.originalImage = Null /\ s.processedImage = Null /\ ~s.isProcessing

\* The 'Loading image...' spinner is rendered.
LoadingView(s) == s.isProcessing /\ s.originalImage = Null

\* The 'Image Loaded' panel is rendered.
LoadedView(s) == s.originalImage # Null /\ s.processedImage = Null

\* The 'Image Cleaned' panel is rendered.
CleanedView(s) == s.processedImage # Null /\ ~s.isProcessing

\* --------------------------------------------------------------------------
\* Actions
\* --------------------------------------------------------------------------

\* The state becomes s; op ran; the user gave n files.
Commit(s, op, n) ==
  /\ originalImage' = s.originalImage
  /\ originalFileName' = s.originalFileName
  /\ metadata' = s.metadata
  /\ processedImage' = s.processedImage
  /\ isProcessing' = s.isProcessing
  /\ history' = s.history
  /\ futureHistory' = s.futureHistory
  /\ listener' = s.listener
  /\ timers' = s.timers
  /\ loads' = s.loads
  /\ cleans' = s.cleans
  /\ lastOp' = op
  /\ given' = given + n

\* Room for n more pending handleImageFile calls.
Room(n) == PendingLoads(St) + n <= MaxLoads

\* Room for one more pending clean.
RoomToClean == BagCardinality(cleans) < MaxCleans

\* The user may give one more file.
MayGive == given < MaxFiles

\* A save with closure c stays within the bound on the past stack.
MaySave(c) == Len(c.history) < MaxHistory

\* The first render: the useState initial values; the effect has registered
\* the listeners of that render.
Init ==
  /\ originalImage = Null
  /\ originalFileName = ""
  /\ metadata = Null
  /\ processedImage = Null
  /\ isProcessing = FALSE
  /\ history = <<>>
  /\ futureHistory = <<>>
  /\ listener = [originalImage |-> Null, originalFileName |-> "",
                 metadata |-> Null, processedImage |-> Null,
                 history |-> <<>>, futureHistory |-> <<>>]
  /\ timers = EmptyBag
  /\ loads = EmptyBag
  /\ cleans = EmptyBag
  /\ lastOp = "other"
  /\ given = 0

\* The user picks a file in the file input of the upload zone.
FileSelect ==
  \E file \in Files :
    /\ UploadView(St) /\ Room(1) /\ MayGive
    /\ Commit(FileSelected(St, file), "other", 1)

\* The user drops a file on the upload zone.
DropOnZone ==
  \E file \in Files :
    /\ UploadView(St) /\ Room(2) /\ MayGive
    /\ Commit(DroppedOnZone(St, file), "other", 1)

\* The user drops a file on the page outside the upload zone.
DropOnPage ==
  \E file \in Files :
    /\ Room(1) /\ MayGive
    /\ HasImage(St) => MaySave(St)
    /\ Commit(DroppedOnPage(St, file), "other", 1)

\* The user pastes an image.
Paste ==
  \E file \in Files :
    /\ Room(1) /\ MayGive
    /\ HasImage(listener) => MaySave(listener)
    /\ Commit(Pasted(St, file), "other", 1)

\* Ctrl+Z
Undo ==
  /\ Commit(UndoKey(St), "undo", 0)

\* Ctrl+Y
Redo ==
  /\ Commit(RedoKey(St), "redo", 0)

\* Ctrl+D
Delete ==
  /\ HasImage(listener) => MaySave(listener)
  /\ Commit(DeleteKey(St), "other", 0)

\* A click on an X button or on 'Process Another'.
Reset ==
  /\ LoadedView(St) \/ CleanedView(St)
  /\ Commit(ResetClicked(St), "other", 0)

\* A click on 'Remove All Metadata' (rendered in the loaded view, disabled
\* while isProcessing).
Clean ==
  /\ LoadedView(St) /\ ~isProcessing
  /\ RoomToClean /\ MaySave(St)
  /\ Commit(CleanClicked(St), "other", 0)

\* The callbacks, each in its own task.
TimerFires ==
  \E file \in BagToSet(timers) : Commit(TimerFired(St, file), "other", 0)

ExtractDone ==
  \E job \in BagToSet(loads) :
    /\ job.pc = "extract"
    /\ Commit(Extracted(St, job), "other", 0)

ReadDone ==
  \E job \in BagToSet(loads) :
    /\ job.pc = "read"
    /\ Commit(FileRead(St, job), "other", 0)

ReadFails ==
  \E job \in BagToSet(loads) :
    /\ job.pc = "read"
    /\ Commit(FileReadFailed(St, job), "other", 0)

ImgOnload ==
  \E job \in BagToSet(cleans) :
    /\ job.pc = "load"
    /\ Commit(ImageLoaded(St, job), "other", 0)

ImgOnloadNoContext ==
  \E job \in BagToSet(cleans) :
    /\ job.pc = "load"
    /\ Commit(ImageLoadedNoContext(St, job), "other", 0)

ImgOnerror ==
  \E job \in BagToSet(cleans) :
    /\ job.pc = "load"
    /\ Commit(ImageError(St, job), "other", 0)

BlobDone ==
  \E job \in BagToSet(cleans) :
    /\ job.pc = "blob"
    /\ Commit(BlobReady(St, job), "other", 0)

BlobFails ==
  \E job \in BagToSet(cleans) :
    /\ job.pc = "blob"
    /\ Commit(BlobNull(St, job), "other", 0)

Next ==
  \/ FileSelect \/ DropOnZone \/ DropOnPage \/ Paste
  \/ Undo \/ Redo \/ Delete \/ Reset \/ Clean
  \/ TimerFires \/ ExtractDone \/ ReadDone \/ ReadFails
  \/ ImgOnload \/ ImgOnloadNoContext \/ ImgOnerror \/ BlobDone \/ BlobFails

Spec == Init /\ [][Next]_vars

\* The browser's event loop runs every pending callback: a timer fires, the
\* awaited extraction resolves, a file read ends (with or without a load
\* event), an image load ends in onload or onerror, an export calls back
\* (with a blob or with null).  Nothing obliges the user to act.
Callbacks ==
  /\ WF_vars(TimerFires)
  /\ WF_vars(ExtractDone)
  /\ WF_vars(ReadDone \/ ReadFails)
  /\ WF_vars(ImgOnload \/ ImgOnloadNoContext \/ ImgOnerror)
  /\ WF_vars(BlobDone \/ BlobFails)

FairSpec == Init /\ [][Next]_vars /\ Callbacks

\* --------------------------------------------------------------------------
\* Properties
\* --------------------------------------------------------------------------

\* The four fields of the current state.
Fields == HistoryState(St)

Last(seq) == seq[Len(seq)]

Front(seq) == SubSeq(seq, 1, Len(seq) - 1)

\* C1 (rollback): whenever the past stack is non-empty, an undo sets the four
\* fields to the last snapshot of the past stack, removes exactly that
\* snapshot, and puts a snapshot of the four fields as they were just before
\* the undo at the front of the future stack.
C1_Rollback ==
  [][(lastOp' = "undo" /\ history # <<>>) =>
       /\ Fields' = Last(history)
       /\ history' = Front(history)
       /\ futureHistory' = <<Fields>> \o futureHistory]_vars

\* C2 (round trip): with a non-empty past stack, undo then redo leaves the
\* four fields and both stacks as they were; with a non-empty future stack,
\* redo then undo does the same.
SameHistoryState(s, t) ==
  /\ HistoryState(s) = HistoryState(t)
  /\ s.history = t.history
  /\ s.futureHistory = t.futureHistory

C2_RoundTrip ==
  /\ history # <<>> => SameHistoryState(RedoKey(UndoKey(St)), St)
  /\ futureHistory # <<>> => SameHistoryState(UndoKey(RedoKey(St)), St)

\* C3 (a snapshot on each mutating action): each user action that changes
\* the four fields (a load by file select, drop or paste; Remove All
\* Metadata; the reset buttons; Ctrl+D; a replacement) pushes the pre-action
\* four fields on the past stack, so that one undo after it returns the four
\* fields to their pre-action values.
Snapshotted(s, t) ==
  /\ t.history = Append(s.history, HistoryState(s))
  /\ HistoryState(UndoKey(t)) = HistoryState(s)

C3_SnapshotOnEachMutatingAction ==
  /\ \A file \in Files :
       /\ UploadView(St) => Snapshotted(St, FileSelected(St, file))
       /\ UploadView(St) => Snapshotted(St, DroppedOnZone(St, file))
       /\ Snapshotted(St, DroppedOnPage(St, file))
       /\ Snapshotted(St, Pasted(St, file))
  /\ (LoadedView(St) /\ ~isProcessing) => Snapshotted(St, CleanClicked(St))
  /\ (LoadedView(St) \/ CleanedView(St)) => Snapshotted(St, ResetClicked(St))
  /\ HasImage(St) => Snapshotted(St, DeleteKey(St))

\* C4 ('Image replaced! Use Ctrl+Z to undo'): when an image is present and
\* another one is pasted or dropped on the page, then once the new image has
\* loaded one Ctrl+Z restores the four fields of the replaced image and a
\* following Ctrl+Y brings back the new image's values.
LoadedAfter(s, file) ==
  FileRead(Extracted(TimerFired(s, file), [file |-> file, pc |-> "extract"]),
           [file |-> file, pc |-> "read"])

ReplaceUndoable(s, t, file) ==
  /\ t.originalImage = Some(DataURL(file))
  /\ HistoryState(UndoKey(t)) = HistoryState(s)
  /\ HistoryState(RedoKey(UndoKey(t))) =
       [originalImage |-> Some(DataURL(file)), originalFileName |-> file.name,
        metadata |-> Some(extractMetadata(file)),
        processedImage |-> t.processedImage]

C4_ReplaceThenUndoRedo ==
  \A file \in Files :
    /\ HasImage(listener) =>
         ReplaceUndoable(St, LoadedAfter(Pasted(St, file), file), file)
    /\ HasImage(St) =>
         ReplaceUndoable(St, LoadedAfter(DroppedOnPage(St, file), file), file)

\* C5 (linear history): the future stack is non-empty only if every change
\* of the four fields since the most recent undo was made by undo or redo:
\* a step other than undo and redo that changes the four fields leaves the
\* future stack empty, so redo never restores a snapshot undone before it.
C5_LinearHistory ==
  [][(lastOp' \notin {"undo", "redo"} /\ Fields' # Fields) =>
       futureHistory' = <<>>]_vars

\* C6 (stack ordering): k consecutive undos restore the k last snapshots
\* pushed, last in first out, and leave the past stack as it was before
\* they were pushed; k consecutive redos afterwards restore the undone
\* states in the reverse order of the undos.
RECURSIVE UndoTimes(_, _)
UndoTimes(s, k) == IF k = 0 THEN s ELSE UndoTimes(UndoKey(s), k - 1)

RECURSIVE RedoTimes(_, _)
RedoTimes(s, k) == IF k = 0 THEN s ELSE RedoTimes(RedoKey(s), k - 1)

C6_StackOrdering ==
  \A k \in 1..Len(history) :
    /\ \A j \in 1..k :
         HistoryState(UndoTimes(St, j)) = history[Len(history) - j + 1]
    /\ UndoTimes(St, k).history = SubSeq(history, 1, Len(history) - k)
    /\ \A j \in 1..k :
         HistoryState(RedoTimes(UndoTimes(St, k), j)) =
           HistoryState(UndoTimes(St, k - j))

ExtractionTotal ==
  \A f \in AllFiles \cup Files :
    /\ "File Info" \in DOMAIN extractMetadata(f)
    /\ extractMetadata(f)["File Info"] = FileInfo(f)
    /\ (f.parseThrows \/ f.thumbnail = "throws") =>
         "Extraction Error" \in DOMAIN extractMetadata(f)

C8_ExtractionNeverFails ==
  /\ ExtractionTotal
  /\ \A job \in BagToSet(loads) :
       job.pc = "extract" =>
         LET reading == [file |-> job.file, pc |-> "read"]
             s1 == Extracted(St, job)
             s2 == FileRead(s1, reading)
         IN /\ s1.metadata # Null
            /\ "File Info" \in DOMAIN s1.metadata[1]
            /\ s1.metadata[1]["File Info"] = FileInfo(job.file)
            /\ job.file.parseThrows =>
                 "Extraction Error" \in DOMAIN s1.metadata[1]
            /\ BagIn(reading, s1.loads)
            /\ s2.metadata = s1.metadata
            /\ s2.originalImage = Some(DataURL(job.file))

\* C8 witness: FileB, on which the parser throws, is loaded: its record has
\* the error entry and originalImage is its data URL.
C8_Witness ==
  /\ originalImage = Some(DataURL(FileB))
  /\ metadata # Null
  /\ "Extraction Error" \in DOMAIN metadata[1]
  /\ "File Info" \in DOMAIN metadata[1]

\* C9 (no-op undo and redo): an undo with an empty past stack and a redo with
\* an empty future stack leave the four fields and both stacks unchanged.
C9_EmptyStackNoOp ==
  [][(\/ lastOp' = "undo" /\ history = <<>>
      \/ lastOp' = "redo" /\ futureHistory = <<>>) =>
       /\ Fields' = Fields
       /\ history' = history
       /\ futureHistory' = futureHistory]_vars

\* C9 witness: Ctrl+Z ran last, on an empty past stack (an undo that pops a
\* snapshot leaves the future stack non-empty), with an image loaded.
C9_Witness ==
  /\ lastOp = "undo"
  /\ futureHistory = <<>>
  /\ originalImage # Null

\* C10 (frame of the clean): without an originalImage handleCleanMetadata
\* changes nothing; with one it pushes exactly one snapshot of the four
\* fields and changes none of them; its completion sets processedImage and
\* clears isProcessing and leaves the other three fields and both stacks
\* alone; so one undo after a completed clean shows the same image with no
\* processedImage.
CompletionFrame(s, t) ==
  /\ t.originalImage = s.originalImage
  /\ t.originalFileName = s.originalFileName
  /\ t.metadata = s.metadata
  /\ t.history = s.history
  /\ t.futureHistory = s.futureHistory
  /\ t.processedImage # Null
  /\ ~t.isProcessing

C10_CleanFrame ==
  /\ originalImage = Null =>
       LET s1 == CleanClicked(St) IN
       /\ SameHistoryState(s1, St)
       /\ s1.isProcessing = isProcessing
       /\ s1.cleans = cleans
  /\ originalImage # Null =>
       LET s1 == CleanClicked(St)
           loading == [img |-> originalImage[1], pc |-> "load"]
           drawn == [img |-> originalImage[1], pc |-> "blob"]
           s2 == ImageLoaded(s1, loading)
           s3 == BlobReady(s2, drawn)
       IN /\ s1.history = Append(history, Fields)
          /\ HistoryState(s1) = Fields
          /\ BagIn(loading, s1.cleans)
          /\ BagIn(drawn, s2.cleans)
          /\ CompletionFrame(s1, s3)
          /\ s3.processedImage = Some(ToBlob(originalImage[1]))
          /\ processedImage = Null =>
               /\ HistoryState(UndoKey(s3)) = Fields
               /\ UndoKey(s3).originalImage = originalImage
               /\ UndoKey(s3).processedImage = Null
  /\ \A job \in BagToSet(cleans) :
       job.pc = "blob" => CompletionFrame(St, BlobReady(St, job))

\* C10 witness: Ctrl+Z ran last and undid a completed clean: the state it
\* left behind (top of the future stack) has a processedImage, and now the
\* same image is shown with none.
C10_Witness ==
  /\ lastOp = "undo"
  /\ futureHistory # <<>>
  /\ futureHistory[1].processedImage # Null
  /\ originalImage # Null
  /\ originalImage = futureHistory[1].originalImage
  /\ futureHistory[1].processedImage[1].id = originalImage[1]
  /\ processedImage = Null

\* C11 (the four fields describe one image): in every reachable state, if
\* originalImage is set then originalFileName and metadata are those of the
\* file originalImage was read from, and if processedImage is set then
\* originalImage is set and processedImage was made from that originalImage;
\* so no completion arriving after a reset, undo or replace writes its result.
C11_FieldsOfOneImage ==
  /\ originalImage # Null =>
       \E f \in Files :
         /\ originalImage = Some(DataURL(f))
         /\ originalFileName = f.name
         /\ metadata = Some(extractMetadata(f))
  /\ processedImage # Null =>
       /\ originalImage # Null
       /\ processedImage[1].id = originalImage[1]

\* C12 (one view): in every reachable state exactly one of the four main
\* views is rendered, and the state with originalImage set, processedImage
\* set and isProcessing true is not reachable.
ViewsRendered(s) ==
  {v \in {"upload", "loading", "loaded", "cleaned"} :
     \/ v = "upload" /\ UploadView(s)
     \/ v = "loading" /\ LoadingView(s)
     \/ v = "loaded" /\ LoadedView(s)
     \/ v = "cleaned" /\ CleanedView(s)}

C12_ExactlyOneView ==
  /\ Cardinality(ViewsRendered(St)) = 1
  /\ ~(originalImage # Null /\ processedImage # Null /\ isProcessing)

\* C13 (processing ends): whenever isProcessing is true it becomes false
\* again once the pending callbacks have run, whatever their outcome (read
\* success or failure, image load or error, missing 2D context, null blob)
\* and whatever the user does in between.
C13_ProcessingEnds == isProcessing ~> ~isProcessing

====
